---- MODULE Spec2Model ----
(***************************************************************************)
(* Model of project.py, the Streamlit dashboard over the vehicle           *)
(* inspection centre dataset: the memoized load (load_data), the script    *)
(* body that filters the table and renders the map, the charts and the     *)
(* listing, and the marker loop of display_inspection_centers_map.         *)
(*                                                                         *)
(* A Streamlit session re-runs the whole script on every interaction, so   *)
(* every user action below is "set the widget, run the script".            *)
(***************************************************************************)
EXTENDS Integers, Sequences, FiniteSets

VARIABLES
    response,         \* what the remote endpoint answers to a GET right now
    cache,            \* st.cache_data entry of load_data: <<>> or <<outcome>>
    widgets,          \* the session's widget values
    data,             \* the script's variable data at line 190
    page,             \* what the last script run rendered
    map_data,         \* display_inspection_centers_map: its argument
    index,            \* ... position of iterrows()
    unique_centers,   \* ... the set of names seen
    m,                \* ... the markers added to the folium map
    pc                \* ... "idle", "iterrows", "returned" or "raised"

vars == <<response, cache, widgets, data, page, map_data, index, unique_centers, m, pc>>

appVars == <<response, cache, widgets, data, page>>

mapVars == <<map_data, index, unique_centers, m, pc>>

-----------------------------------------------------------------------------
(* Bounds *)

MaxRows == 2

MaxMapRows == 3

-----------------------------------------------------------------------------
(* Python and pandas values *)

\* Python's None; an optional value is <<>> or <<v>>
None == <<>>

Some(v) == <<v>>

\* a missing numeric cell (float NaN); a price is NaN or <<p>>
NaN == <<>>

\* pandas' NaT, the result of a coerced date
NaT == <<>>

\* a str cell holding the characters chars
Str(chars) == [type |-> "str", value |-> chars]

\* an empty CSV cell in an object column: read_csv yields the float NaN
NaNCell == [type |-> "float", value |-> <<>>]

Digits == {"1", "2"}

DigitValue(c) == IF c = "1" THEN 1 ELSE 2

Row(dept, cat, energie, prix, date, name, coord) ==
    [cct_code_dept |-> dept, cat_vehicule_libelle |-> cat,
     cat_energie_libelle |-> energie, prix_visite |-> prix,
     date_application_visite |-> date, cct_denomination |-> name,
     coordgeo |-> coord]

\* all sequences over S of length at most n
SeqUpTo(S, n) == UNION {[1..k -> S] : k \in 0..n}

-----------------------------------------------------------------------------
(* extract_coordinates *)

RECURSIVE split(_)
\* str.split(","): the maximal comma-free pieces, empty pieces included
split(s) ==
    IF \A i \in 1..Len(s) : s[i] # ","
    THEN <<s>>
    ELSE LET i == CHOOSE k \in 1..Len(s) :
                      s[k] = "," /\ \A j \in 1..(k - 1) : s[j] # ","
         IN  <<SubSeq(s, 1, i - 1)>> \o split(SubSeq(s, i + 1, Len(s)))

\* float(token) raises ValueError unless the token is a number
FloatRaises(token) == token = <<>> \/ \E i \in 1..Len(token) : token[i] \notin Digits

RECURSIVE float(_)
float(token) ==
    IF Len(token) = 0 THEN 0
    ELSE 10 * float(SubSeq(token, 1, Len(token) - 1)) + DigitValue(token[Len(token)])

\* result: the exception that escapes ("" for none) and the returned pair
extract_coordinates(coordgeo) ==
    IF coordgeo.type # "str"
    THEN [exception |-> "AttributeError", value |-> <<None, None>>]
    ELSE LET tokens == split(coordgeo.value)
         IN  IF (\E i \in 1..Len(tokens) : FloatRaises(tokens[i])) \/ Len(tokens) # 2
             THEN [exception |-> "", value |-> <<None, None>>]
             ELSE [exception |-> "",
                   value |-> <<Some(float(tokens[1])), Some(float(tokens[2]))>>]

-----------------------------------------------------------------------------
(* display_inspection_centers_map *)

Marker(name, latitude, longitude) ==
    [popup |-> name, location |-> <<latitude[1], longitude[1]>>]

\* the loop body without line 124: no name is ever recorded as seen
MapLoopBody_NoDedup(st, row) ==
    LET c == extract_coordinates(row.coordgeo)
    IN  IF c.exception # ""
        THEN [st EXCEPT !.exception = c.exception]
        ELSE [st EXCEPT !.m = IF c.value[1] # None /\ c.value[2] # None
                              THEN Append(st.m, Marker(row.cct_denomination,
                                                       c.value[1], c.value[2]))
                              ELSE st.m]

\* the loop body with line 124 inside the if of line 119: a name is recorded
\* as seen only when its marker is placed
MapLoopBody_SeenOnMarker(st, row) ==
    LET center_name == row.cct_denomination
        c == extract_coordinates(row.coordgeo)
    IN  IF center_name \in st.unique_centers
        THEN st
        ELSE IF c.exception # ""
        THEN [st EXCEPT !.exception = c.exception]
        ELSE IF c.value[1] # None /\ c.value[2] # None
        THEN [unique_centers |-> st.unique_centers \cup {center_name},
              m |-> Append(st.m, Marker(center_name, c.value[1], c.value[2])),
              exception |-> ""]
        ELSE st

\* one pass of the loop body over a row; st = [unique_centers, m, exception]
MapLoopBody(st, row) ==
    LET center_name == row.cct_denomination
    IN  IF center_name \in st.unique_centers
        THEN st
        ELSE LET c == extract_coordinates(row.coordgeo)
                 latitude == c.value[1]
                 longitude == c.value[2]
             IN  IF c.exception # ""
                 THEN [st EXCEPT !.exception = c.exception]
                 ELSE [unique_centers |-> st.unique_centers \cup {center_name},
                       m |-> IF latitude # None /\ longitude # None
                             THEN Append(st.m, Marker(center_name, latitude, longitude))
                             ELSE st.m,
                       exception |-> ""]

RECURSIVE MapLoop(_, _, _)
MapLoop(st, table, i) ==
    IF i > Len(table) \/ st.exception # "" THEN st
    ELSE MapLoop(MapLoopBody(st, table[i]), table, i + 1)

\* the whole call: the markers of the returned map, or the exception
\* (st.cache_resource here and st.cache_data on the chart functions key on the
\* argument, so a hit returns what the call would compute: they are not state)
display_inspection_centers_map(table) ==
    MapLoop([unique_centers |-> {}, m |-> <<>>, exception |-> ""], table, 1)

-----------------------------------------------------------------------------
(* load_data and its st.cache_data memo *)

\* pd.read_csv over the response text: the table, or ParserError
TableA ==
    <<Row("75", "VP", "Essence", <<10>>, Str("2023-01-05"), "A", Str(<<"1", ",", "2">>))>>

TableB ==
    <<Row("92", "VUL", "Diesel", <<20>>, Str("2023-02-10"), "B", Str(<<"2", ",", "1">>)),
      Row("75", "VP", "Essence", <<10>>, Str("2023-01-05"), "A", Str(<<"1", ",", "2">>))>>

Texts == {"csvA", "csvB", "ragged"}

ParserError(text) == text = "ragged"

read_csv(text) == IF text = "csvA" THEN TableA ELSE TableB

StatusCodes == {200, 204, 500}

Responses == [status_code : StatusCodes, text : Texts]

\* a check that accepts every 2xx status (response.ok) instead of exactly 200
load_data_AnySuccess(r) ==
    IF r.status_code < 300
    THEN IF ~ParserError(r.text)
         THEN [value |-> Some(read_csv(r.text)), error |-> <<>>, gets |-> 1]
         ELSE [value |-> None,
               error |-> <<[text |-> "Failed to parse data. Parser error", status_code |-> None]>>,
               gets |-> 1]
    ELSE [value |-> None,
          error |-> <<[text |-> "Failed to fetch data. Status code",
                       status_code |-> Some(r.status_code)]>>,
          gets |-> 1]

\* the function body, run on a cache miss: one GET, answered by r
load_data(r) ==
    IF r.status_code = 200
    THEN IF ~ParserError(r.text)
         THEN [value |-> Some(read_csv(r.text)), error |-> <<>>, gets |-> 1]
         ELSE [value |-> None,
               error |-> <<[text |-> "Failed to parse data. Parser error", status_code |-> None]>>,
               gets |-> 1]
    ELSE [value |-> None,
          error |-> <<[text |-> "Failed to fetch data. Status code",
                       status_code |-> Some(r.status_code)]>>,
          gets |-> 1]

\* a call of the decorated function: the stored outcome (its st.error
\* replayed) on a hit, the body on a miss; nothing ever clears the entry
cached_load_data(c, r) ==
    IF c # <<>>
    THEN [value |-> c[1].value, error |-> c[1].error, gets |-> 0, hit |-> TRUE,
          answer |-> None, cache |-> c]
    ELSE LET o == load_data(r)
         IN  [value |-> o.value, error |-> o.error, gets |-> o.gets, hit |-> FALSE,
              answer |-> Some(r), cache |-> <<[value |-> o.value, error |-> o.error]>>]

-----------------------------------------------------------------------------
(* pandas operations used by the script body *)

All == "All"

\* frame[frame[column].isin(selected)]
isin(table, column, selected) == SelectSeq(table, LAMBDA r : r[column] \in selected)

\* the sentinel honoured only when it is the whole selection
multiselect_filter_AllAlone(table, column, selected) ==
    IF selected # {All} THEN isin(table, column, selected) ELSE table

\* lines 199-200, 222-223, 225-226
multiselect_filter(table, column, selected) ==
    IF All \notin selected THEN isin(table, column, selected) ELSE table

\* float comparisons: any comparison with NaN is False
Ge(a, b) == a # NaN /\ b # NaN /\ a[1] >= b[1]

Le(a, b) == a # NaN /\ b # NaN /\ a[1] <= b[1]

\* line 229
price_filter(table, price_range) ==
    SelectSeq(table, LAMBDA r : Ge(r.prix_visite, price_range[1])
                                /\ Le(r.prix_visite, price_range[2]))

Column(table, column) == {table[i][column] : i \in 1..Len(table)}

\* Series.min() / Series.max(): missing values are skipped, NaN when none is left
Min(S) == IF S \ {NaN} = {} THEN NaN
          ELSE CHOOSE x \in S \ {NaN} : \A y \in S \ {NaN} : x[1] <= y[1]

Max(S) == IF S \ {NaN} = {} THEN NaN
          ELSE CHOOSE x \in S \ {NaN} : \A y \in S \ {NaN} : x[1] >= y[1]

\* line 220: the slider's default value
default_price_range(table) ==
    <<Min(Column(table, "prix_visite")), Max(Column(table, "prix_visite"))>>

\* Series.value_counts(): one entry per distinct value
value_counts(table, column) ==
    {[label |-> v, count |-> Cardinality({i \in 1..Len(table) : table[i][column] = v})] :
        v \in Column(table, column)}

RECURSIVE Sum(_, _)
Sum(table, I) ==
    IF I = {} THEN 0
    ELSE LET i == CHOOSE j \in I : TRUE
         IN  table[i].prix_visite[1] + Sum(table, I \ {i})

\* the mean of the present prices of the rows I, as sum / n (n = 0: NaN)
mean_price(table, I) ==
    LET P == {i \in I : table[i].prix_visite # NaN}
    IN  [sum |-> Sum(table, P), n |-> Cardinality(P)]

\* pd.to_datetime(cell, format='mixed', errors='coerce') as yyyymmdd
to_datetime(cell) ==
    IF cell.type # "str" THEN NaT
    ELSE IF cell.value = "2023-01-05" THEN <<20230105>>
    ELSE IF cell.value = "2023/01/05" THEN <<20230105>>
    ELSE IF cell.value = "2023-02-10" THEN <<20230210>>
    ELSE NaT

yearmonth(d) == d \div 100

\* line 73: groupby on the raw column; only missing keys are dropped
create_price_time_series_chart(table) ==
    LET keys == {c \in Column(table, "date_application_visite") : c.type = "str"}
    IN  {[date_application_visite |-> k.value,
          mean |-> mean_price(table, {i \in 1..Len(table) :
                                        table[i].date_application_visite = k})] :
            k \in keys}

\* line 86: the rows whose coerced date lies in [start_date, end_date]
period_rows(table, start_date, end_date) ==
    SelectSeq(table, LAMBDA r : Ge(to_datetime(r.date_application_visite), start_date)
                                /\ Le(to_datetime(r.date_application_visite), end_date))

\* lines 87-95: mean price per year-month of the period's rows
create_price_time_period_chart(table, start_date, end_date) ==
    LET rows == period_rows(table, start_date, end_date)
        months == {yearmonth(to_datetime(rows[i].date_application_visite)[1]) :
                      i \in 1..Len(rows)}
    IN  {[yearmonth |-> ym,
          mean |-> mean_price(rows, {i \in 1..Len(rows) :
                      yearmonth(to_datetime(rows[i].date_application_visite)[1]) = ym})] :
            ym \in months}

-----------------------------------------------------------------------------
(* The script, lines 164-276: one run *)

Loaded == "Data is currently loaded!"

NothingLoaded == "There is nothing loaded yet..."

\* the values of widgets that are not on the page: Streamlit drops them, and
\* a widget that comes back starts from its default
DefaultWidgets ==
    [load_data_button |-> FALSE,
     selected_departments |-> {All},
     display_map |-> FALSE,
     more_options |-> FALSE,
     selected_vehicle_category |-> {All},
     selected_energy_type |-> {All},
     price_range |-> None,
     display_dept_distribution_chart |-> FALSE,
     display_vehicle_category_chart |-> FALSE,
     display_energy_type_chart |-> FALSE,
     display_price_time_series_chart |-> FALSE,
     start_date |-> None,
     end_date |-> None]

EmptyPage ==
    [rendered |-> NothingLoaded, error |-> <<>>, calls |-> <<>>, exception |-> "",
     map |-> None, listing |-> None,
     dept_distribution_chart |-> None, vehicle_category_chart |-> None,
     energy_type_chart |-> None, price_time_series_chart |-> None,
     date_error |-> FALSE, show_button |-> FALSE, price_time_period_chart |-> None,
     refresh_button |-> FALSE]

\* line 220: the slider's value, its default when it first appears
slider_value(table, w) ==
    IF w.price_range = None THEN default_price_range(table) ELSE w.price_range[1]

\* lines 222-229: category, energy type and price, in this order
more_filters(filtered, w, price_range) ==
    price_filter(
        multiselect_filter(
            multiselect_filter(filtered, "cat_vehicule_libelle", w.selected_vehicle_category),
            "cat_energie_libelle", w.selected_energy_type),
        price_range)

\* lines 251-252
coerced_dates(filtered_data) ==
    {to_datetime(c) : c \in Column(filtered_data, "date_application_visite")}

\* lines 256-257: the date inputs' values, min_date and max_date by default
date_input_start(filtered_data, w) ==
    IF w.start_date = None THEN Min(coerced_dates(filtered_data)) ELSE w.start_date[1]

date_input_end(filtered_data, w) ==
    IF w.end_date = None THEN Max(coerced_dates(filtered_data)) ELSE w.end_date[1]

\* line 258: start_date > end_date
invalid_range(start_date, end_date) ==
    start_date # NaT /\ end_date # NaT /\ start_date[1] > end_date[1]

\* lines 233-263: the charts of the "more options" block, added to the page
more_options_charts(shown, filtered_data, w, click, start_date, end_date) ==
    [shown EXCEPT
        !.listing = Some(filtered_data),
        !.dept_distribution_chart =
            IF w.display_dept_distribution_chart
            THEN Some(value_counts(filtered_data, "cct_code_dept")) ELSE None,
        !.vehicle_category_chart =
            IF w.display_vehicle_category_chart
            THEN Some(value_counts(filtered_data, "cat_vehicule_libelle")) ELSE None,
        !.energy_type_chart =
            IF w.display_energy_type_chart
            THEN Some(value_counts(filtered_data, "cat_energie_libelle")) ELSE None,
        !.price_time_series_chart =
            IF w.display_price_time_series_chart
            THEN Some(create_price_time_series_chart(filtered_data)) ELSE None,
        !.date_error = w.display_price_time_series_chart
                       /\ invalid_range(start_date, end_date),
        !.show_button = w.display_price_time_series_chart
                        /\ ~invalid_range(start_date, end_date),
        !.price_time_period_chart =
            IF /\ w.display_price_time_series_chart
               /\ ~invalid_range(start_date, end_date)
               /\ click = "Show Price Variation"
            THEN Some(create_price_time_period_chart(filtered_data, start_date, end_date))
            ELSE None]

\* the widget values the "more options" block leaves in the session
more_options_widgets(w, price_range, start_date, end_date) ==
    [w EXCEPT !.price_range = Some(price_range),
              !.start_date = IF w.display_price_time_series_chart
                             THEN Some(start_date) ELSE None,
              !.end_date = IF w.display_price_time_series_chart
                           THEN Some(end_date) ELSE None]

more_options_dated(shown, filtered_data, w, click, price_range) ==
    [widgets |-> more_options_widgets(w, price_range,
                     date_input_start(filtered_data, w), date_input_end(filtered_data, w)),
     page |-> more_options_charts(shown, filtered_data, w, click,
                  date_input_start(filtered_data, w), date_input_end(filtered_data, w))]

\* lines 215-263, the "more options" block over the department-filtered rows
more_options_block(shown, table, filtered, w, click) ==
    more_options_dated(shown, more_filters(filtered, w, slider_value(table, w)),
                       w, click, slider_value(table, w))

\* the widgets left when the "more options" block is not rendered
closed_widgets(w) ==
    [DefaultWidgets EXCEPT !.load_data_button = w.load_data_button,
                           !.selected_departments = w.selected_departments,
                           !.display_map = w.display_map]

\* lines 207-269, given the department-filtered rows and the map call's outcome
after_map(table, by_department, map, w, click) ==
    IF map.exception # ""
    \* line 208 raised: the run stops there
    THEN [widgets |-> closed_widgets(w),
          page |-> [EmptyPage EXCEPT !.rendered = Loaded, !.exception = map.exception]]
    ELSE IF ~w.more_options
    THEN [widgets |-> closed_widgets(w),
          page |-> [EmptyPage EXCEPT
                       !.rendered = Loaded,
                       !.map = IF w.display_map THEN Some(map.m) ELSE None,
                       !.listing = IF w.display_map THEN Some(by_department) ELSE None]]
    ELSE more_options_block(
             [EmptyPage EXCEPT !.rendered = Loaded,
                               !.map = IF w.display_map THEN Some(map.m) ELSE None],
             table, by_department, w, click)

NoMap == [unique_centers |-> {}, m |-> <<>>, exception |-> ""]

\* lines 207-208
map_call(by_department, w) ==
    IF w.display_map THEN display_inspection_centers_map(by_department) ELSE NoMap

\* the map call moved below the "more options" filters
with_departments_MapAfterFilters(table, by_department, w, click) ==
    after_map(table, by_department,
              map_call(IF w.more_options
                       THEN more_filters(by_department, w, slider_value(table, w))
                       ELSE by_department, w),
              w, click)

\* lines 207-269 over the department-filtered rows
with_departments(table, by_department, w, click) ==
    after_map(table, by_department, map_call(by_department, w), w, click)

\* lines 190-269, data is not None
loaded_branch(table, w, click) ==
    with_departments(table,
        multiselect_filter(table, "cct_code_dept", w.selected_departments), w, click)

\* lines 270-273, data is None
nothing_branch(w) ==
    [widgets |-> [DefaultWidgets EXCEPT !.load_data_button = w.load_data_button],
     page |-> EmptyPage]

\* what the page shows of a call: where it was made, whether the memo answered,
\* the GETs it issued, the response it got and what it returned
CallRecord(o, line) ==
    [line |-> line, hit |-> o.hit, gets |-> o.gets, answer |-> o.answer,
     value |-> o.value, error |-> o.error]

\* lines 275-276: the button is reached unless the run stopped before it
refresh(body, c1, r, click) ==
    IF click = "Refresh Data" /\ body.page.exception = ""
    THEN <<cached_load_data(c1, r)>> ELSE <<>>

\* the run's result: widgets, memo and page; data is the variable at line 190
finish(first, body, second, c) ==
    [widgets |-> body.widgets,
     cache |-> IF second # <<>> THEN second[1].cache
               ELSE IF first # <<>> THEN first[1].cache ELSE c,
     data |-> IF first = <<>> THEN None ELSE first[1].value,
     page |-> [body.page EXCEPT
         !.error = (IF first = <<>> THEN <<>> ELSE first[1].error)
                   \o (IF second = <<>> THEN <<>> ELSE second[1].error),
         !.calls = (IF first = <<>> THEN <<>> ELSE <<CallRecord(first[1], 178)>>)
                   \o (IF second = <<>> THEN <<>> ELSE <<CallRecord(second[1], 276)>>),
         !.refresh_button = body.page.exception = ""]]

after_body(first, body, c, r, click) ==
    finish(first, body,
           refresh(body, IF first # <<>> THEN first[1].cache ELSE c, r, click), c)

\* lines 180-273
after_load(first, w, c, r, click) ==
    after_body(first,
               IF first # <<>> /\ first[1].value # None
               THEN loaded_branch(first[1].value[1], w, click)
               ELSE nothing_branch(w),
               c, r, click)

\* the whole run, for the widget values w and the button pressed (click);
\* lines 174-178 first
Script(w, c, r, click) ==
    after_load(IF w.load_data_button THEN <<cached_load_data(c, r)>> ELSE <<>>,
               w, c, r, click)

-----------------------------------------------------------------------------
(* The session: user actions, each followed by a run of the script *)

Result(s) ==
    /\ widgets' = s.widgets
    /\ cache' = s.cache
    /\ data' = s.data
    /\ page' = s.page
    /\ UNCHANGED <<response, mapVars>>

Run(w, click) == Result(Script(w, cache, response, click))

\* the remote dataset or its availability changes
EndpointChanges ==
    /\ \E r \in Responses : response' = r
    /\ UNCHANGED <<cache, widgets, data, page, mapVars>>

\* line 175, "Click Here to Load the Data"
ToggleLoadData ==
    /\ widgets.load_data_button \in BOOLEAN
    /\ Run([widgets EXCEPT !.load_data_button = ~@], "")

\* line 275, "Refresh Data"
ClickRefreshData ==
    /\ page.refresh_button
    /\ Run(widgets, "Refresh Data")

\* line 198
SelectDepartments ==
    /\ data # None
    /\ \E S \in SUBSET ({All} \cup Column(data[1], "cct_code_dept")) :
           Run([widgets EXCEPT !.selected_departments = S], "")

\* line 205
ToggleDisplayMap ==
    /\ data # None
    /\ Run([widgets EXCEPT !.display_map = ~@], "")

\* line 214
ToggleMoreOptions ==
    /\ data # None /\ page.exception = ""
    /\ Run([widgets EXCEPT !.more_options = ~@], "")

MoreOptionsShown == data # None /\ page.exception = "" /\ widgets.more_options

\* line 218
SelectVehicleCategory ==
    /\ MoreOptionsShown
    /\ \E S \in SUBSET ({All} \cup Column(data[1], "cat_vehicule_libelle")) :
           Run([widgets EXCEPT !.selected_vehicle_category = S], "")

\* line 219
SelectEnergyType ==
    /\ MoreOptionsShown
    /\ \E S \in SUBSET ({All} \cup Column(data[1], "cat_energie_libelle")) :
           Run([widgets EXCEPT !.selected_energy_type = S], "")

\* line 220: any pair lo <= hi within the slider's bounds
SlidePriceRange ==
    /\ MoreOptionsShown
    /\ LET bounds == default_price_range(data[1])
           P == Column(data[1], "prix_visite") \ {NaN}
       IN  \E lo \in P, hi \in P :
               /\ Ge(lo, bounds[1]) /\ Le(lo, hi) /\ Le(hi, bounds[2])
               /\ Run([widgets EXCEPT !.price_range = Some(<<lo, hi>>)], "")

\* line 233
ToggleDeptDistributionChart ==
    /\ MoreOptionsShown
    /\ Run([widgets EXCEPT !.display_dept_distribution_chart = ~@], "")

\* line 234
ToggleVehicleCategoryChart ==
    /\ MoreOptionsShown
    /\ Run([widgets EXCEPT !.display_vehicle_category_chart = ~@], "")

\* line 235
ToggleEnergyTypeChart ==
    /\ MoreOptionsShown
    /\ Run([widgets EXCEPT !.display_energy_type_chart = ~@], "")

\* line 237
TogglePriceTimeSeriesChart ==
    /\ MoreOptionsShown
    /\ Run([widgets EXCEPT !.display_price_time_series_chart = ~@], "")

\* lines 256-257: the two date inputs, each within [min_date, max_date]
SelectDates ==
    /\ MoreOptionsShown /\ widgets.display_price_time_series_chart
    /\ LET D == {to_datetime(c) : c \in Column(page.listing[1], "date_application_visite")}
                 \ {NaT}
       IN  \E s \in D, e \in D :
               Run([widgets EXCEPT !.start_date = Some(s), !.end_date = Some(e)], "")

\* line 261, "Show Price Variation"
ClickShowPriceVariation ==
    /\ page.show_button
    /\ Run(widgets, "Show Price Variation")

\* lines 115-124: one row of iterrows()
MapIterate ==
    /\ pc = "iterrows" /\ index <= Len(map_data)
    /\ LET st == MapLoopBody([unique_centers |-> unique_centers, m |-> m,
                              exception |-> ""], map_data[index])
       IN  /\ unique_centers' = st.unique_centers
           /\ m' = st.m
           /\ pc' = IF st.exception # "" THEN "raised" ELSE pc
           /\ index' = IF st.exception # "" THEN index ELSE index + 1
    /\ UNCHANGED <<map_data, appVars>>

\* line 126
MapReturn ==
    /\ pc = "iterrows" /\ index > Len(map_data)
    /\ pc' = "returned"
    /\ UNCHANGED <<map_data, index, unique_centers, m, appVars>>

-----------------------------------------------------------------------------
(* Specifications *)

MapIdle ==
    /\ map_data = <<>> /\ index = 0 /\ unique_centers = {} /\ m = <<>> /\ pc = "idle"

\* the state after the first run of a session that holds the table in its memo
Started(s) ==
    /\ cache = s.cache
    /\ widgets = s.widgets
    /\ data = s.data
    /\ page = s.page

SessionWith(table) ==
    Started(Script([DefaultWidgets EXCEPT !.load_data_button = TRUE],
                   <<[value |-> Some(table), error |-> <<>>]>>, response, ""))

\* a fresh session: nothing cached, the script has run once
Init ==
    /\ response \in Responses
    /\ cache = <<>>
    /\ widgets = DefaultWidgets
    /\ data = None
    /\ page = Script(DefaultWidgets, <<>>, response, "").page
    /\ MapIdle

Next == EndpointChanges \/ ToggleLoadData \/ ClickRefreshData \/ ToggleDisplayMap

Spec == Init /\ [][Next]_vars

\* rows for the filters: departments, categories, energies, prices, centres
FilterRows ==
    {Row("75", "VP", "Essence", <<10>>, Str("2023-01-05"), "A", Str(<<"1", ",", "2">>)),
     Row("75", "VUL", "Diesel", <<20>>, Str("2023-01-05"), "B", Str(<<"2", ",", "1">>)),
     Row("92", "VP", "Diesel", NaN, Str("2023-01-05"), "A", Str(<<"2", ",", "2">>)),
     Row("92", "VUL", "Essence", <<10>>, Str("2023-01-05"), "C", NaNCell)}

\* the slider of line 220 needs a price: tables with at least one
FilterTables ==
    {t \in SeqUpTo(FilterRows, MaxRows) : Column(t, "prix_visite") \ {NaN} # {}}

InitFilter ==
    /\ response = [status_code |-> 200, text |-> "csvA"]
    /\ \E t \in FilterTables : SessionWith(t)
    /\ MapIdle

NextFilter ==
    \/ SelectDepartments \/ ToggleDisplayMap \/ ToggleMoreOptions
    \/ SelectVehicleCategory \/ SelectEnergyType \/ SlidePriceRange

SpecFilter == InitFilter /\ [][NextFilter]_vars

\* rows for the charts: prices and raw dates
ChartRows ==
    {Row("75", "VP", "Essence", <<10>>, Str("2023-01-05"), "A", Str(<<"1", ",", "2">>)),
     Row("75", "VP", "Essence", <<20>>, Str("2023/01/05"), "A", Str(<<"1", ",", "2">>)),
     Row("92", "VUL", "Diesel", <<20>>, Str("2023-02-10"), "B", Str(<<"2", ",", "1">>)),
     Row("92", "VP", "Diesel", <<10>>, Str("n/a"), "B", Str(<<"2", ",", "1">>)),
     Row("75", "VUL", "Essence", NaN, Str("2023-02-10"), "C", Str(<<"2", ",", "2">>)),
     Row("92", "VUL", "Diesel", <<10>>, NaNCell, "C", Str(<<"2", ",", "2">>))}

\* the slider and the date inputs need a price and a date: tables with a
\* row that has both
ChartTables ==
    {t \in SeqUpTo(ChartRows, MaxRows) :
        \E i \in 1..Len(t) : /\ t[i].prix_visite # NaN
                              /\ to_datetime(t[i].date_application_visite) # NaT}

InitCharts ==
    /\ response = [status_code |-> 200, text |-> "csvA"]
    /\ \E t \in ChartTables : SessionWith(t)
    /\ MapIdle

NextCharts ==
    \/ ToggleMoreOptions
    \/ ToggleDeptDistributionChart \/ ToggleVehicleCategoryChart
    \/ ToggleEnergyTypeChart \/ TogglePriceTimeSeriesChart
    \/ SelectDates \/ ClickShowPriceVariation

SpecCharts == InitCharts /\ [][NextCharts]_vars

\* the cells coordgeo can hold: "1,2", "2,1", "x", "1,2,1", "1,x", missing
CoordCells ==
    {Str(<<"1", ",", "2">>), Str(<<"2", ",", "1">>), Str(<<"x">>),
     Str(<<"1", ",", "2", ",", "1">>), Str(<<"1", ",", "x">>), NaNCell}

MapRows ==
    {Row("75", "VP", "Essence", <<10>>, Str("2023-01-05"), name, coord) :
        name \in {"A", "B"}, coord \in CoordCells}

\* a call of display_inspection_centers_map on any table
InitMap ==
    /\ response = [status_code |-> 200, text |-> "csvA"]
    /\ cache = <<>>
    /\ widgets = DefaultWidgets
    /\ data = None
    /\ page = EmptyPage
    /\ map_data \in SeqUpTo(MapRows, MaxMapRows)
    /\ index = 1
    /\ unique_centers = {}
    /\ m = <<>>
    /\ pc = "iterrows"

NextMap == MapIterate \/ MapReturn

SpecMap == InitMap /\ [][NextMap]_vars

-----------------------------------------------------------------------------
(* Properties *)

Rows(table) == {table[i] : i \in 1..Len(table)}

Selected(selected, value) == All \in selected \/ value \in selected

\* the row passes the three selections of the session
PassesSelections(r) ==
    /\ Selected(widgets.selected_departments, r.cct_code_dept)
    /\ widgets.more_options =>
          /\ Selected(widgets.selected_vehicle_category, r.cat_vehicule_libelle)
          /\ Selected(widgets.selected_energy_type, r.cat_energie_libelle)

PriceInSlider(r) ==
    /\ r.prix_visite # NaN
    /\ r.prix_visite[1] >= widgets.price_range[1][1][1]
    /\ r.prix_visite[1] <= widgets.price_range[1][2][1]

\* C1: a selection holding "All" keeps every row of the filter's input, whatever
\* else it holds; a selection without "All" keeps exactly the rows whose column
\* value is in it. The listing is the table's rows, in order, that pass the
\* department selection and, with more options, the category and energy
\* selections (and the price slider).
C1_AllSentinelIsNoOp ==
    page.listing # None =>
        page.listing[1] =
            SelectSeq(data[1], LAMBDA r : /\ PassesSelections(r)
                                          /\ widgets.more_options => PriceInSlider(r))

\* C1 witness: "All" selected together with a category, and a row of another
\* category listed
C1_Witness ==
    /\ page.listing # None /\ widgets.more_options
    /\ All \in widgets.selected_vehicle_category
    /\ widgets.selected_vehicle_category # {All}
    /\ \E r \in Rows(page.listing[1]) :
           r.cat_vehicule_libelle \notin widgets.selected_vehicle_category
    /\ All \notin widgets.selected_energy_type
    /\ Len(page.listing[1]) < Len(data[1])

AllDefaults ==
    /\ widgets.selected_departments = {All}
    /\ widgets.selected_vehicle_category = {All}
    /\ widgets.selected_energy_type = {All}
    /\ widgets.more_options => widgets.price_range = Some(default_price_range(data[1]))

\* C2: with every selection "All" and the slider at its default, the listing
\* equals the loaded table, rows without a price included, with more options
\* on as well as off.
C2_AllIsIdentity ==
    (page.listing # None /\ AllDefaults) => page.listing[1] = data[1]

\* C3: the load made by "Refresh Data" issues a new GET and its outcome
\* replaces the held one.
C3_RefreshReloads ==
    \A i \in DOMAIN page.calls :
        page.calls[i].line = 276 =>
            /\ page.calls[i].gets = 1
            /\ page.calls[i].value = load_data(response).value
            /\ cache = <<[value |-> load_data(response).value,
                          error |-> load_data(response).error]>>

Succeeds(r) == r.status_code = 200 /\ ~ParserError(r.text)

Visited == 1..(index - 1)

Parsed(i) == extract_coordinates(map_data[i].coordgeo).value

HasCoordinates(i) == Parsed(i)[1] # None /\ Parsed(i)[2] # None

SameName(i, j) == map_data[i].cct_denomination = map_data[j].cct_denomination

FirstOfName(i) == \A k \in 1..(i - 1) : ~SameName(k, i)

MarkersOf(name) == {k \in DOMAIN m : m[k].popup = name}

\* two visited rows of one name, the first of that name, with different
\* coordinates that both parse
TwoPlaces(i, j) ==
    /\ i < j /\ SameName(i, j) /\ FirstOfName(i)
    /\ HasCoordinates(i) /\ HasCoordinates(j)
    /\ Parsed(i) # Parsed(j)

\* C5: no two markers carry the same name, and two rows of one name with
\* different coordinates give exactly one marker, at the first row's
\* coordinates.
C5_OneMarkerPerName ==
    /\ \A k, l \in DOMAIN m : k # l => m[k].popup # m[l].popup
    /\ \A i, j \in Visited :
           TwoPlaces(i, j) =>
               /\ Cardinality(MarkersOf(map_data[i].cct_denomination)) = 1
               /\ \A k \in MarkersOf(map_data[i].cct_denomination) :
                      m[k].location = <<Parsed(i)[1][1], Parsed(i)[2][1]>>

\* C5 witness: the map is returned for a table with two such rows
C5_Witness ==
    /\ pc = "returned"
    /\ \E i, j \in Visited : TwoPlaces(i, j)

\* the cell is a string of two numbers separated by one comma
TwoFloatTokens(cell) ==
    /\ cell.type = "str"
    /\ \E k \in 2..(Len(cell.value) - 1) :
           /\ cell.value[k] = ","
           /\ \A j \in (1..Len(cell.value)) \ {k} : cell.value[j] \in Digits

\* C6: extract_coordinates never raises: every cell gives the pair of its two
\* float tokens or (None, None), and the marker loop is never aborted by a
\* coordinate.
C6_NeverRaises ==
    /\ pc # "raised"
    /\ \A i \in Visited :
           FirstOfName(i) => (HasCoordinates(i) <=> TwoFloatTokens(map_data[i].coordgeo))

\* the raw date of the row cannot be parsed
Unparsable(r) == to_datetime(r.date_application_visite) = NaT

InPeriod(r) ==
    /\ ~Unparsable(r)
    /\ widgets.start_date # None /\ widgets.end_date # None
    /\ Ge(to_datetime(r.date_application_visite), widgets.start_date[1])
    /\ Le(to_datetime(r.date_application_visite), widgets.end_date[1])

\* C7: no row with an unparsable date contributes a group or a mean to the
\* price time series, nor to the period chart, and the period chart holds
\* only rows dated within [start, end].
C7_UnparsableDatesExcluded ==
    /\ page.price_time_series_chart # None =>
           \A g \in page.price_time_series_chart[1] :
               /\ to_datetime(Str(g.date_application_visite)) # NaT
               /\ g.mean.n = Cardinality({i \in 1..Len(page.listing[1]) :
                   /\ ~Unparsable(page.listing[1][i])
                   /\ page.listing[1][i].date_application_visite.value
                          = g.date_application_visite
                   /\ page.listing[1][i].prix_visite # NaN})
    /\ page.price_time_period_chart # None =>
           \A g \in page.price_time_period_chart[1] :
               g.mean.n = Cardinality({i \in 1..Len(page.listing[1]) :
                   /\ InPeriod(page.listing[1][i])
                   /\ yearmonth(to_datetime(
                          page.listing[1][i].date_application_visite)[1]) = g.yearmonth
                   /\ page.listing[1][i].prix_visite # NaN})

CountIn(chart, label) ==
    IF \E e \in chart : e.label = label
    THEN (CHOOSE e \in chart : e.label = label).count
    ELSE 0

RowsWith(column, value) ==
    {i \in 1..Len(data[1]) : PassesSelections(data[1][i]) /\ data[1][i][column] = value}

\* C8: a row without a price stays in what does not need the price: if it
\* passes the department, category and energy selections it is listed, and it
\* is counted in the department, category and energy frequency charts.
C8_MissingPriceRowStays ==
    \A i \in 1..Len(data[1]) :
        LET r == data[1][i]
        IN  (r.prix_visite = NaN /\ PassesSelections(r)) =>
                /\ page.listing # None => r \in Rows(page.listing[1])
                /\ page.dept_distribution_chart # None =>
                       CountIn(page.dept_distribution_chart[1], r.cct_code_dept)
                           = Cardinality(RowsWith("cct_code_dept", r.cct_code_dept))
                /\ page.vehicle_category_chart # None =>
                       CountIn(page.vehicle_category_chart[1], r.cat_vehicule_libelle)
                           = Cardinality(RowsWith("cat_vehicule_libelle",
                                                  r.cat_vehicule_libelle))
                /\ page.energy_type_chart # None =>
                       CountIn(page.energy_type_chart[1], r.cat_energie_libelle)
                           = Cardinality(RowsWith("cat_energie_libelle",
                                                  r.cat_energie_libelle))

\* C9: a name is seen at its first row whether or not the coordinates parse:
\* a visited name has a marker iff the first row of that name has coordinates,
\* so a later row of the name never adds one.
C9_FirstRowDecides ==
    /\ \A i \in Visited :
           FirstOfName(i) =>
               (MarkersOf(map_data[i].cct_denomination) # {} <=> HasCoordinates(i))
    /\ \A k \in DOMAIN m : \E i \in Visited : map_data[i].cct_denomination = m[k].popup

\* C9 witness: the map is returned, a name's first row has no coordinates, a
\* later row of the name has, and the name has no marker
C9_Witness ==
    /\ pc = "returned"
    /\ \E i, j \in Visited :
           /\ i < j /\ SameName(i, j) /\ FirstOfName(i)
           /\ ~HasCoordinates(i) /\ HasCoordinates(j)
           /\ MarkersOf(map_data[i].cct_denomination) = {}

\* C10: the markers depend on the table and the department selection only:
\* a run that keeps both leaves the markers as they were, whatever the more
\* options toggle, the category and energy selections and the slider become,
\* while the listing of that run holds only rows that pass all of them.
C10_MarkersIgnoreMoreOptions ==
    [][/\ (/\ data' = data
           /\ widgets'.selected_departments = widgets.selected_departments
           /\ page.map # None /\ page'.map # None) => page'.map = page.map
       /\ (page'.listing # None /\ widgets'.more_options) =>
              \A r \in Rows(page'.listing[1]) :
                  /\ Selected(widgets'.selected_vehicle_category, r.cat_vehicule_libelle)
                  /\ Selected(widgets'.selected_energy_type, r.cat_energie_libelle)
                  /\ Ge(r.prix_visite, widgets'.price_range[1][1])
                  /\ Le(r.prix_visite, widgets'.price_range[1][2])]_vars

\* C10 witness: a marker on the map for a centre that the more options
\* filters removed from the listing
C10_Witness ==
    /\ page.map # None /\ page.listing # None /\ widgets.more_options
    /\ \E k \in DOMAIN page.map[1] :
           \A r \in Rows(page.listing[1]) : r.cct_denomination # page.map[1][k].popup

====
